---- MODULE Spec2Model ----
(***************************************************************************)
(* Model of the validator RPC Server.GetLocalHeader (local execution       *)
(* payload header construction under ePBS).  Each invocation is a          *)
(* goroutine that reads the process-wide sync status, optimistic status    *)
(* and fork epoch, calls its collaborators one after the other and returns *)
(* either a header or an error.                                            *)
(***************************************************************************)
EXTENDS Integers, Sequences, FiniteSets, TLC

(* ------------------------------ bounds --------------------------------- *)

\* requested slots are 0..MaxSlot
MaxSlot == 2
\* slots per epoch of the modelled chain configuration
SlotsPerEpoch == 2
\* capacity of the commitment list of the modelled chain configuration
MaxBlobCommitmentsPerBlock == 2

\* New receives at most MaxOpts options
MaxOpts == 2
\* Status is called at most MaxStatusCalls times
MaxStatusCalls == 2
\* Stop is called at most MaxStops times
MaxStops == 2
\* tracing.Setup is called at most MaxSetupCalls times
MaxSetupCalls == 2

(* --------------------------- value domains ----------------------------- *)

\* the concurrent GetLocalHeader invocations (one goroutine each)
Calls == {"c1", "c2"}
Slots == 0..MaxSlot
ProposerIndices == {7, 9}

\* an optional value: the empty sequence is nil, <<v>> is the value v
Nil == <<>>
Some(v) == <<v>>

\* a Go error; plain is TRUE for an error that carries no gRPC status
PlainError(text) == [plain |-> TRUE, code |-> "Unknown", msg |-> <<text>>]

\* status.Error(code, msg)
StatusError(code, msg) == [plain |-> FALSE, code |-> code, msg |-> msg]

\* err.Error(): the text %v prints for an error
ErrorText(err) ==
    IF err.plain THEN err.msg
    ELSE <<"rpc error: code = ", err.code, " desc = ">> \o err.msg

\* status.Errorf(code, format + ": %v", err)
StatusErrorf(code, prefix, err) ==
    [plain |-> FALSE, code |-> code, msg |-> <<prefix>> \o ErrorText(err)]

\* the error vs.optimisticStatus returns while the head is optimistic
OptimisticErrors ==
    { StatusError("Unavailable", <<"The node is currently optimistic and cannot serve validators">>) }

\* the errors vs.getParentState can return, each with its own classification
ResolutionErrors ==
    { StatusError("NotFound", <<"Could not get parent state">>),
      StatusError("Internal", <<"Could not process slots up to the requested slot">>) }

\* the errors vs.getLocalPayloadFromEngine can return
ProductionErrors == { PlainError("could not get payload from execution engine") }

\* the (state, parent root) pairs vs.getParentState can return
ResolvedParents == { [st |-> "stateA", parentRoot |-> "0xAA"],
                     [st |-> "stateB", parentRoot |-> "0xBB"] }

\* the execution data a local payload can carry
ExecutionDatas == { [parentHash |-> "0x11", blockHash |-> "0x22", gasLimit |-> 30],
                    [parentHash |-> "0x22", blockHash |-> "0x33", gasLimit |-> 36] }

\* KZG commitments
Commitments == {1, 2}

\* the list of length n that alternates between two commitments, starting at c
RECURSIVE Alternating(_, _)
Alternating(c, n) ==
    IF n = 0 THEN <<>>
    ELSE <<c>> \o Alternating(3 - c, n - 1)

\* two commitment lists of every length up to one beyond the capacity
CommitmentLists ==
    { Alternating(c, n) : c \in Commitments, n \in 0..(MaxBlobCommitmentsPerBlock + 1) }

LocalPayloads ==
    { [ExecutionData |-> e, KzgCommitments |-> cs] :
        e \in ExecutionDatas, cs \in CommitmentLists }

(* ------------------------- pure helper functions ----------------------- *)

\* slots.ToEpoch
ToEpoch(slot) == slot \div SlotsPerEpoch

\* the abstract two-to-one hash: an injective encoding of its two arguments
Hash(a, b) == <<-1>> \o a \o b

\* the leaf of one commitment (the element-hashing rule), the zero leaf and
\* the leaf that carries the length of the list
CommitmentLeaf(c) == <<-2, c>>
ZeroLeaf == <<0>>
LengthLeaf(n) == <<n>>

\* ceil(log2(n)) for n >= 1
RECURSIVE CeilLog2From(_, _, _)
CeilLog2From(n, d, pow) == IF pow >= n THEN d ELSE CeilLog2From(n, d + 1, 2 * pow)
CeilLog2(n) == CeilLog2From(n, 0, 1)

RECURSIVE Pow2(_)
Pow2(d) == IF d = 0 THEN 1 ELSE 2 * Pow2(d - 1)

\* the root of the binary Merkle tree over a power-of-two number of leaves
RECURSIVE MerkleRoot(_)
MerkleRoot(leaves) ==
    IF Len(leaves) = 1 THEN leaves[1]
    ELSE LET half == Len(leaves) \div 2
         IN  Hash(MerkleRoot(SubSeq(leaves, 1, half)),
                  MerkleRoot(SubSeq(leaves, half + 1, Len(leaves))))

\* ssz.KzgCommitmentsRoot: (root, err)
KzgCommitmentsRoot(commitments) ==
    IF Len(commitments) > MaxBlobCommitmentsPerBlock
    THEN [root |-> Nil, err |-> Some(PlainError("commitments list exceeds the maximum length"))]
    ELSE LET width  == Pow2(CeilLog2(MaxBlobCommitmentsPerBlock))
             leaves == [k \in 1..width |->
                          IF k <= Len(commitments)
                          THEN CommitmentLeaf(commitments[k])
                          ELSE ZeroLeaf]
         IN  [root |-> Some(Hash(MerkleRoot(leaves), LengthLeaf(Len(commitments)))),
              err  |-> Nil]

(* ------------------------------- state --------------------------------- *)

VARIABLES
    syncing,        \* what vs.SyncChecker.Syncing() answers now
    optimisticErr,  \* what vs.optimisticStatus answers now: Nil or Some(error)
    epbsForkEpoch,  \* params.BeaconConfig().EPBSForkEpoch
    pc,             \* pc[c]: where invocation c stands in GetLocalHeader
    req,            \* req[c]: the HeaderRequest of invocation c
    st,             \* st[c]: the resolved parent state, Nil before line 35
    parentRoot,     \* parentRoot[c]: the resolved parent root, Nil before line 35
    localPayload,   \* localPayload[c]: the produced payload, Nil before line 41
    calls,          \* calls[c]: the collaborator calls of invocation c, in order
    ret             \* ret[c]: the (header, error) pair invocation c returned

\* package httprest: one Server g and the goroutine Start spawns
VARIABLES
    opts,           \* the options passed to New, <<>> before New
    newRet,         \* Nil before New, then Some of what New returned
    cfg,            \* g.cfg
    server,         \* g.server: Nil or Some(http.Server)
    cancel,         \* g.cancel: Nil or Some(cancel function)
    startFailure,   \* g.startFailure: the two words of an error interface
    inShutdown,     \* whether Shutdown was called on g.server
    gpc,            \* where the goroutine of Start stands
    lasRet,         \* Nil, or Some of what ListenAndServe returned
    statusLog,      \* what the calls of Status returned, in order
    stopLog,        \* what the calls of Stop returned, in order
    cancelCalls     \* how often the cancel function was called

httpVars == <<opts, newRet, cfg, server, cancel, startFailure, inShutdown, gpc,
              lasRet, statusLog, stopLog, cancelCalls>>

\* package tracing: the process-wide opencensus state
VARIABLES
    traceConfig,    \* the configurations trace.ApplyConfig received, in order
    exporters,      \* the exporters trace.RegisterExporter received, in order
    setupLog        \* the calls of Setup: arguments and result, in order

traceVars == <<traceConfig, exporters, setupLog>>

otherVars == <<httpVars, traceVars>>

headerVars == <<syncing, optimisticErr, epbsForkEpoch, pc, req, st, parentRoot,
                localPayload, calls, ret>>

vars == <<syncing, optimisticErr, epbsForkEpoch, pc, req, st, parentRoot,
          localPayload, calls, ret, httpVars, traceVars>>

shared == <<syncing, optimisticErr, epbsForkEpoch>>

\* the fork epochs of the modelled configurations: from "always active" to
\* "later than every requested slot"
ForkEpochs == 0..(ToEpoch(MaxSlot) + 1)

\* an error interface value in memory: its type word (set or not) and its
\* data word; the nil interface has neither
ErrorValue(err) == [tab |-> TRUE, data |-> Some(err)]
NilError == [tab |-> FALSE, data |-> Nil]

NoRequest == [Slot |-> 0, ProposerIndex |-> 0]
NoReturn == [hdr |-> Nil, err |-> Nil]

Init ==
    /\ syncing \in BOOLEAN
    /\ optimisticErr \in {Nil} \cup { Some(e) : e \in OptimisticErrors }
    /\ epbsForkEpoch \in ForkEpochs
    /\ pc = [c \in Calls |-> "idle"]
    /\ req = [c \in Calls |-> NoRequest]
    /\ st = [c \in Calls |-> Nil]
    /\ parentRoot = [c \in Calls |-> Nil]
    /\ localPayload = [c \in Calls |-> Nil]
    /\ calls = [c \in Calls |-> <<>>]
    /\ ret = [c \in Calls |-> NoReturn]
    /\ opts = <<>>
    /\ newRet = Nil
    /\ cfg = [httpAddr |-> "", router |-> Nil]
    /\ server = Nil
    /\ cancel = Nil
    /\ startFailure = NilError
    /\ inShutdown = FALSE
    /\ gpc = "none"
    /\ lasRet = Nil
    /\ statusLog = <<>>
    /\ stopLog = <<>>
    /\ cancelCalls = 0
    /\ traceConfig = <<>>
    /\ exporters = <<>>
    /\ setupLog = <<>>

\* one collaborator call: the function, its arguments and what it returned
Call(fn, in, out) == [fn |-> fn, in |-> in, out |-> out]

\* return nil, err
ReturnError(c, err) ==
    /\ ret' = [ret EXCEPT ![c] = [hdr |-> Nil, err |-> Some(err)]]
    /\ pc' = [pc EXCEPT ![c] = "done"]

(* ------------------------------ actions -------------------------------- *)

\* a caller invokes GetLocalHeader(ctx, req)
Invoke(c, slot, proposerIndex) ==
    /\ pc[c] = "idle"
    /\ req' = [req EXCEPT ![c] = [Slot |-> slot, ProposerIndex |-> proposerIndex]]
    /\ pc' = [pc EXCEPT ![c] = "syncing"]
    /\ UNCHANGED <<otherVars, shared, st, parentRoot, localPayload, calls, ret>>

\* the error of line 22
SyncingError ==
    StatusError("FailedPrecondition", <<"Syncing to latest head, not ready to respond">>)

\* CheckSyncing with the answer of Syncing() ignored
CheckSyncing_Ignored(c) ==
    /\ pc[c] = "syncing"
    /\ calls' = [calls EXCEPT ![c] = Append(@, Call("Syncing", <<>>, <<syncing>>))]
    /\ pc' = [pc EXCEPT ![c] = "optimistic"]
    /\ UNCHANGED <<otherVars, shared, req, st, parentRoot, localPayload, ret>>

\* lines 21-23
CheckSyncing(c) ==
    /\ pc[c] = "syncing"
    /\ calls' = [calls EXCEPT ![c] = Append(@, Call("Syncing", <<>>, <<syncing>>))]
    /\ IF syncing
       THEN ReturnError(c, SyncingError)
       ELSE /\ pc' = [pc EXCEPT ![c] = "optimistic"]
            /\ UNCHANGED ret
    /\ UNCHANGED <<otherVars, shared, req, st, parentRoot, localPayload>>

\* the error of line 26
OptimisticError(err) ==
    StatusErrorf("FailedPrecondition", "Validator is not ready to propose: ", err)

\* CheckOptimistic with the fork check moved in front of the optimistic check
CheckOptimistic_ForkFirst(c) ==
    /\ pc[c] = "optimistic"
    /\ IF epbsForkEpoch > ToEpoch(req[c].Slot)
       THEN /\ ReturnError(c, StatusError("FailedPrecondition",
                                          <<"EPBS fork has not occurred yet">>))
            /\ UNCHANGED calls
       ELSE /\ calls' = [calls EXCEPT ![c] =
                           Append(@, Call("optimisticStatus", <<>>, optimisticErr))]
            /\ IF optimisticErr # Nil
               THEN ReturnError(c, OptimisticError(optimisticErr[1]))
               ELSE /\ pc' = [pc EXCEPT ![c] = "fork"]
                    /\ UNCHANGED ret
    /\ UNCHANGED <<otherVars, shared, req, st, parentRoot, localPayload>>

\* lines 25-27
CheckOptimistic(c) ==
    /\ pc[c] = "optimistic"
    /\ calls' = [calls EXCEPT ![c] = Append(@, Call("optimisticStatus", <<>>, optimisticErr))]
    /\ IF optimisticErr # Nil
       THEN ReturnError(c, OptimisticError(optimisticErr[1]))
       ELSE /\ pc' = [pc EXCEPT ![c] = "fork"]
            /\ UNCHANGED ret
    /\ UNCHANGED <<otherVars, shared, req, st, parentRoot, localPayload>>

\* ForkError with the status of an internal failure
ForkError_Internal ==
    StatusError("Internal", <<"EPBS fork has not occurred yet">>)

\* the error of line 32
ForkError ==
    StatusError("FailedPrecondition", <<"EPBS fork has not occurred yet">>)

\* ForkNotActive with >= in place of >
ForkNotActive_OffByOne(forkEpoch, slot) == forkEpoch >= ToEpoch(slot)

\* the condition of line 31
ForkNotActive(forkEpoch, slot) == forkEpoch > ToEpoch(slot)

\* CheckFork waiting for the fork instead of failing before it
CheckFork_Waits(c) ==
    /\ pc[c] = "fork"
    /\ ~ForkNotActive(epbsForkEpoch, req[c].Slot)
    /\ pc' = [pc EXCEPT ![c] = "resolve"]
    /\ UNCHANGED <<otherVars, shared, req, st, parentRoot, localPayload, calls, ret>>

\* lines 29-33
CheckFork(c) ==
    /\ pc[c] = "fork"
    /\ IF ForkNotActive(epbsForkEpoch, req[c].Slot)
       THEN ReturnError(c, ForkError)
       ELSE /\ pc' = [pc EXCEPT ![c] = "resolve"]
            /\ UNCHANGED ret
    /\ UNCHANGED <<otherVars, shared, req, st, parentRoot, localPayload, calls>>

\* GetParentStateOk with st and parentRoot kept in fields of the server, which
\* all invocations share
GetParentStateOk_Shared(c, resolved) ==
    /\ pc[c] = "resolve"
    /\ calls' = [calls EXCEPT ![c] =
                    Append(@, Call("getParentState", <<req[c].Slot>>,
                                   [st |-> Some(resolved.st),
                                    parentRoot |-> Some(resolved.parentRoot),
                                    err |-> Nil]))]
    /\ st' = [d \in Calls |-> Some(resolved.st)]
    /\ parentRoot' = [d \in Calls |-> Some(resolved.parentRoot)]
    /\ pc' = [pc EXCEPT ![c] = "produce"]
    /\ UNCHANGED <<otherVars, shared, req, localPayload, ret>>

\* lines 35-38 when vs.getParentState returns (st, parentRoot, nil)
GetParentStateOk(c, resolved) ==
    /\ pc[c] = "resolve"
    /\ calls' = [calls EXCEPT ![c] =
                    Append(@, Call("getParentState", <<req[c].Slot>>,
                                   [st |-> Some(resolved.st),
                                    parentRoot |-> Some(resolved.parentRoot),
                                    err |-> Nil]))]
    /\ st' = [st EXCEPT ![c] = Some(resolved.st)]
    /\ parentRoot' = [parentRoot EXCEPT ![c] = Some(resolved.parentRoot)]
    /\ pc' = [pc EXCEPT ![c] = "produce"]
    /\ UNCHANGED <<otherVars, shared, req, localPayload, ret>>

\* ParentStateError with the resolver's error wrapped as an internal failure
ParentStateError_Wrapped(err) ==
    StatusErrorf("Internal", "Could not get parent state: ", err)

\* the error of line 37
ParentStateError(err) == err

\* GetParentStateFail with the error dropped: the pipeline goes on with the
\* zero values of st and parentRoot
GetParentStateFail_Continues(c, err) ==
    /\ pc[c] = "resolve"
    /\ calls' = [calls EXCEPT ![c] =
                    Append(@, Call("getParentState", <<req[c].Slot>>,
                                   [st |-> Nil, parentRoot |-> Nil, err |-> Some(err)]))]
    /\ st' = [st EXCEPT ![c] = Some("")]
    /\ parentRoot' = [parentRoot EXCEPT ![c] = Some("0x00")]
    /\ pc' = [pc EXCEPT ![c] = "produce"]
    /\ UNCHANGED <<otherVars, shared, req, localPayload, ret>>

\* lines 35-38 when vs.getParentState returns an error
GetParentStateFail(c, err) ==
    /\ pc[c] = "resolve"
    /\ calls' = [calls EXCEPT ![c] =
                    Append(@, Call("getParentState", <<req[c].Slot>>,
                                   [st |-> Nil, parentRoot |-> Nil, err |-> Some(err)]))]
    /\ ReturnError(c, ParentStateError(err))
    /\ UNCHANGED <<otherVars, shared, req, st, parentRoot, localPayload>>

\* LocalPayloadError with the producer's error dropped
LocalPayloadError_Swallowed(err) ==
    StatusError("Internal", <<"Could not get local payload">>)

\* the error of line 43
LocalPayloadError(err) ==
    StatusErrorf("Internal", "Could not get local payload: ", err)

\* lines 40-44 when vs.getLocalPayloadFromEngine returns an error
GetLocalPayloadFail(c, err) ==
    /\ pc[c] = "produce"
    /\ calls' = [calls EXCEPT ![c] =
                    Append(@, Call("getLocalPayloadFromEngine",
                                   [st |-> st[c], parentRoot |-> parentRoot[c],
                                    slot |-> req[c].Slot,
                                    proposerIndex |-> req[c].ProposerIndex],
                                   [payload |-> Nil, err |-> Some(err)]))]
    /\ ReturnError(c, LocalPayloadError(err))
    /\ UNCHANGED <<otherVars, shared, req, st, parentRoot, localPayload>>

\* KzgRootError with the error passed on as it is
KzgRootError_Unwrapped(err) == err

\* the error of line 48
KzgRootError(err) ==
    StatusErrorf("Internal", "Could not get kzg commitments root: ", err)

\* Header with the slot and the proposer index in each other's field
Header_SlotAsBuilder(payload, root, proposerIndex, slot, kzgRoot) ==
    [ ParentBlockHash        |-> payload.ExecutionData.parentHash,
      ParentBlockRoot        |-> root,
      BlockHash              |-> payload.ExecutionData.blockHash,
      GasLimit               |-> payload.ExecutionData.gasLimit,
      BuilderIndex           |-> slot,
      Slot                   |-> proposerIndex,
      Value                  |-> 0,
      BlobKzgCommitmentsRoot |-> kzgRoot ]

\* Header with the two hashes of the execution data in each other's field
Header_HashesSwapped(payload, root, proposerIndex, slot, kzgRoot) ==
    [ ParentBlockHash        |-> payload.ExecutionData.blockHash,
      ParentBlockRoot        |-> root,
      BlockHash              |-> payload.ExecutionData.parentHash,
      GasLimit               |-> payload.ExecutionData.gasLimit,
      BuilderIndex           |-> proposerIndex,
      Slot                   |-> slot,
      Value                  |-> 0,
      BlobKzgCommitmentsRoot |-> kzgRoot ]

\* Header with the parent root in the place of the commitments root
Header_ParentRootAsKzgRoot(payload, root, proposerIndex, slot, kzgRoot) ==
    [ ParentBlockHash        |-> payload.ExecutionData.parentHash,
      ParentBlockRoot        |-> root,
      BlockHash              |-> payload.ExecutionData.blockHash,
      GasLimit               |-> payload.ExecutionData.gasLimit,
      BuilderIndex           |-> proposerIndex,
      Slot                   |-> slot,
      Value                  |-> 0,
      BlobKzgCommitmentsRoot |-> root ]

\* the header of lines 51-60
Header(payload, root, proposerIndex, slot, kzgRoot) ==
    [ ParentBlockHash        |-> payload.ExecutionData.parentHash,
      ParentBlockRoot        |-> root,
      BlockHash              |-> payload.ExecutionData.blockHash,
      GasLimit               |-> payload.ExecutionData.gasLimit,
      BuilderIndex           |-> proposerIndex,
      Slot                   |-> slot,
      Value                  |-> 0,
      BlobKzgCommitmentsRoot |-> kzgRoot ]

\* the argument of ssz.KzgCommitmentsRoot at line 46
KzgRootInput(payload) == payload.KzgCommitments

\* lines 40-60 when vs.getLocalPayloadFromEngine returns a payload: nothing
\* blocks between the producer's return and the return of GetLocalHeader
GetLocalPayloadOk(c, payload) ==
    LET kzg == KzgCommitmentsRoot(KzgRootInput(payload))
    IN  /\ pc[c] = "produce"
        /\ localPayload' = [localPayload EXCEPT ![c] = Some(payload)]
        /\ calls' = [calls EXCEPT ![c] =
                        @ \o << Call("getLocalPayloadFromEngine",
                                     [st |-> st[c], parentRoot |-> parentRoot[c],
                                      slot |-> req[c].Slot,
                                      proposerIndex |-> req[c].ProposerIndex],
                                     [payload |-> Some(payload), err |-> Nil]),
                                Call("KzgCommitmentsRoot", <<KzgRootInput(payload)>>, kzg) >>]
        /\ IF kzg.err # Nil
           THEN ReturnError(c, KzgRootError(kzg.err[1]))
           ELSE /\ ret' = [ret EXCEPT ![c] =
                             [hdr |-> Some(Header(payload, parentRoot[c][1],
                                                  req[c].ProposerIndex, req[c].Slot,
                                                  kzg.root[1])),
                              err |-> Nil]]
                /\ pc' = [pc EXCEPT ![c] = "done"]
        /\ UNCHANGED <<otherVars, shared, req, st, parentRoot>>

\* the caller takes the result; the invocation's locals are gone
Return(c) ==
    /\ pc[c] = "done"
    /\ pc' = [pc EXCEPT ![c] = "idle"]
    /\ req' = [req EXCEPT ![c] = NoRequest]
    /\ st' = [st EXCEPT ![c] = Nil]
    /\ parentRoot' = [parentRoot EXCEPT ![c] = Nil]
    /\ localPayload' = [localPayload EXCEPT ![c] = Nil]
    /\ calls' = [calls EXCEPT ![c] = <<>>]
    /\ ret' = [ret EXCEPT ![c] = NoReturn]
    /\ UNCHANGED <<otherVars, shared>>

\* the sync service starts or finishes syncing
SyncStatusChanges ==
    /\ syncing' = ~syncing
    /\ UNCHANGED <<otherVars, optimisticErr, epbsForkEpoch, pc, req, st, parentRoot,
                   localPayload, calls, ret>>

\* the head becomes optimistic, or validated, or its status unreadable
OptimisticStatusChanges ==
    /\ optimisticErr' \in ({Nil} \cup { Some(e) : e \in OptimisticErrors }) \ {optimisticErr}
    /\ UNCHANGED <<otherVars, syncing, epbsForkEpoch, pc, req, st, parentRoot,
                   localPayload, calls, ret>>

Next ==
    \/ \E c \in Calls, slot \in Slots, proposerIndex \in ProposerIndices :
          Invoke(c, slot, proposerIndex)
    \/ \E c \in Calls : CheckSyncing(c)
    \/ \E c \in Calls : CheckOptimistic(c)
    \/ \E c \in Calls : CheckFork(c)
    \/ \E c \in Calls, resolved \in ResolvedParents : GetParentStateOk(c, resolved)
    \/ \E c \in Calls, err \in ResolutionErrors : GetParentStateFail(c, err)
    \/ \E c \in Calls, payload \in LocalPayloads : GetLocalPayloadOk(c, payload)
    \/ \E c \in Calls, err \in ProductionErrors : GetLocalPayloadFail(c, err)
    \/ \E c \in Calls : Return(c)
    \/ SyncStatusChanges
    \/ OptimisticStatusChanges

Spec == Init /\ [][Next]_vars

\* one step of invocation c between its call and its return
Step(c) ==
    \/ CheckSyncing(c)
    \/ CheckOptimistic(c)
    \/ CheckFork(c)
    \/ \E resolved \in ResolvedParents : GetParentStateOk(c, resolved)
    \/ \E err \in ResolutionErrors : GetParentStateFail(c, err)
    \/ \E payload \in LocalPayloads : GetLocalPayloadOk(c, payload)
    \/ \E err \in ProductionErrors : GetLocalPayloadFail(c, err)

\* one invocation at a time, under a changing sync and optimistic status
NextOne ==
    \/ \E slot \in Slots, proposerIndex \in ProposerIndices :
          Invoke("c1", slot, proposerIndex)
    \/ CheckSyncing("c1")
    \/ CheckOptimistic("c1")
    \/ CheckFork("c1")
    \/ \E resolved \in ResolvedParents : GetParentStateOk("c1", resolved)
    \/ \E err \in ResolutionErrors : GetParentStateFail("c1", err)
    \/ \E payload \in LocalPayloads : GetLocalPayloadOk("c1", payload)
    \/ \E err \in ProductionErrors : GetLocalPayloadFail("c1", err)
    \/ Return("c1")
    \/ SyncStatusChanges
    \/ OptimisticStatusChanges

\* the invocation keeps running: its goroutine is scheduled and the
\* collaborator it waits for returns
FairSpec == Init /\ [][NextOne]_vars /\ WF_vars(Step("c1"))

(* --------------------------- package httprest -------------------------- *)

Routers == {"routerA", "routerB"}

\* the options a caller can pass to New: WithRouter(r) for a router or for
\* nil, WithHTTPAddr(addr), and an option that returns an error
Options ==
    { [kind |-> "router", router |-> r, addr |-> "", err |-> Nil] :
        r \in {Nil} \cup { Some(x) : x \in Routers } }
    \cup { [kind |-> "addr", router |-> Nil, addr |-> "127.0.0.1:3500", err |-> Nil] }
    \cup { [kind |-> "fail", router |-> Nil, addr |-> "",
            err |-> Some(PlainError("invalid option"))] }

\* every list of at most n options
RECURSIVE OptionLists(_)
OptionLists(n) ==
    IF n = 0 THEN { <<>> }
    ELSE OptionLists(n - 1)
         \cup { Append(os, o) : os \in { l \in OptionLists(n - 1) : Len(l) = n - 1 },
                                o \in Options }

\* opt(g) at line 47: the configuration after the option and its error
ApplyOption(c, opt) ==
    CASE opt.kind = "router" -> [cfg |-> [c EXCEPT !.router = opt.router], err |-> Nil]
      [] opt.kind = "addr"   -> [cfg |-> [c EXCEPT !.httpAddr = opt.addr], err |-> Nil]
      [] OTHER               -> [cfg |-> c, err |-> opt.err]

\* ApplyOptions that goes on after an option returned an error
RECURSIVE ApplyOptions_ErrorsIgnored(_, _)
ApplyOptions_ErrorsIgnored(c, os) ==
    IF os = <<>> THEN [cfg |-> c, err |-> Nil]
    ELSE ApplyOptions_ErrorsIgnored(ApplyOption(c, Head(os)).cfg, Tail(os))

\* the loop of lines 46-50
RECURSIVE ApplyOptions(_, _)
ApplyOptions(c, os) ==
    IF os = <<>> THEN [cfg |-> c, err |-> Nil]
    ELSE LET r == ApplyOption(c, Head(os))
         IN  IF r.err # Nil THEN r ELSE ApplyOptions(r.cfg, Tail(os))

\* lines 41-63: what New returns, and the fields of the Server it built
NewResult(os) ==
    LET applied == ApplyOptions([httpAddr |-> "", router |-> Nil], os)
    IN  IF applied.err # Nil
        THEN [srv |-> Nil, err |-> applied.err, cfg |-> applied.cfg, server |-> Nil]
        ELSE IF applied.cfg.router = Nil
        THEN [srv |-> Nil, err |-> Some(PlainError("router option not configured")),
              cfg |-> applied.cfg, server |-> Nil]
        ELSE [srv |-> Some("g"), err |-> Nil, cfg |-> applied.cfg,
              server |-> Some([Addr |-> applied.cfg.httpAddr,
                               Handler |-> applied.cfg.router])]

\* New(ctx, opts...)
New(os) ==
    /\ newRet = Nil
    /\ opts' = os
    /\ newRet' = Some([srv |-> NewResult(os).srv, err |-> NewResult(os).err])
    /\ IF NewResult(os).srv # Nil
       THEN cfg' = NewResult(os).cfg /\ server' = NewResult(os).server
       ELSE UNCHANGED <<cfg, server>>
    /\ UNCHANGED <<cancel, startFailure, inShutdown, gpc, lasRet, statusLog,
                   stopLog, cancelCalls, headerVars, traceVars>>

\* New returned a Server
Constructed == newRet # Nil /\ newRet[1].srv # Nil

\* lines 66-78: Start is called once on a Server; it sets g.cancel and spawns
\* the goroutine
Start ==
    /\ Constructed
    /\ gpc = "none"
    /\ cancel' = Some("cancel")
    /\ gpc' = "spawned"
    /\ UNCHANGED <<opts, newRet, cfg, server, startFailure, inShutdown, lasRet,
                   statusLog, stopLog, cancelCalls, headerVars, traceVars>>

ErrServerClosed == PlainError("http: Server closed")

\* the errors net.Listen and Accept can make ListenAndServe return
ListenErrors == { PlainError("listen tcp 127.0.0.1:3500: bind: address already in use") }
ServeErrors == { PlainError("accept tcp 127.0.0.1:3500: accept: too many open files") }

\* line 72: where the goroutine goes after ListenAndServe returned err
AfterListenAndServe(err) == IF err # ErrServerClosed THEN "failed" ELSE "exited"

\* line 72: ListenAndServe returns at once, with ErrServerClosed after a
\* Shutdown and with the error of net.Listen otherwise
ListenFails(err) ==
    /\ gpc = "spawned"
    /\ IF inShutdown THEN err = ErrServerClosed ELSE err \in ListenErrors
    /\ lasRet' = Some(err)
    /\ gpc' = AfterListenAndServe(err)
    /\ UNCHANGED <<opts, newRet, cfg, server, cancel, startFailure, inShutdown,
                   statusLog, stopLog, cancelCalls, headerVars, traceVars>>

\* line 72: ListenAndServe listens and serves
Listen ==
    /\ gpc = "spawned"
    /\ ~inShutdown
    /\ gpc' = "serving"
    /\ UNCHANGED <<opts, newRet, cfg, server, cancel, startFailure, inShutdown,
                   lasRet, statusLog, stopLog, cancelCalls, headerVars, traceVars>>

\* line 72: ListenAndServe returns from serving, with ErrServerClosed after a
\* Shutdown and with the error of Accept otherwise
ServeReturns(err) ==
    /\ gpc = "serving"
    /\ IF inShutdown THEN err = ErrServerClosed ELSE err \in ServeErrors
    /\ lasRet' = Some(err)
    /\ gpc' = AfterListenAndServe(err)
    /\ UNCHANGED <<opts, newRet, cfg, server, cancel, startFailure, inShutdown,
                   statusLog, stopLog, cancelCalls, headerVars, traceVars>>

\* startFailure with word w of the interface value of err stored
WithWord(w, err) ==
    IF w = "tab" THEN [startFailure EXCEPT !.tab = TRUE]
    ELSE [startFailure EXCEPT !.data = Some(err)]

\* line 74: g.startFailure = err is the store of two words, in the order the
\* compiler chose, with no lock and no atomic; this is the first store
StoreFirstWord(w) ==
    /\ gpc = "failed"
    /\ startFailure' = WithWord(w, lasRet[1])
    /\ gpc' = "storing"
    /\ UNCHANGED <<opts, newRet, cfg, server, cancel, inShutdown, lasRet,
                   statusLog, stopLog, cancelCalls, headerVars, traceVars>>

\* line 74: the second store, of the word that is not yet set; line 75
StoreSecondWord ==
    /\ gpc = "storing"
    /\ startFailure' = ErrorValue(lasRet[1])
    /\ gpc' = "exited"
    /\ UNCHANGED <<opts, newRet, cfg, server, cancel, inShutdown, lasRet,
                   statusLog, stopLog, cancelCalls, headerVars, traceVars>>

\* lines 81-86: Status loads g.startFailure, with no lock and no atomic, and
\* returns it unless it is the nil interface (no type word)
StatusResult == IF startFailure.tab THEN startFailure ELSE NilError

Status ==
    /\ Constructed
    /\ Len(statusLog) < MaxStatusCalls
    /\ statusLog' = Append(statusLog, StatusResult)
    /\ UNCHANGED <<opts, newRet, cfg, server, cancel, startFailure, inShutdown,
                   gpc, lasRet, stopLog, cancelCalls, headerVars, traceVars>>

\* lines 101-103: the number of cancel calls after Stop
CancelCallsAfterStop == IF cancel # Nil THEN cancelCalls + 1 ELSE cancelCalls

\* lines 89-105: Stop shuts g.server down, only logs the error of Shutdown,
\* calls g.cancel if it is set and returns nil
Stop ==
    /\ Constructed
    /\ Len(stopLog) < MaxStops
    /\ inShutdown' = (IF server # Nil THEN TRUE ELSE inShutdown)
    /\ cancelCalls' = CancelCallsAfterStop
    /\ stopLog' = Append(stopLog, NilError)
    /\ UNCHANGED <<opts, newRet, cfg, server, cancel, startFailure, gpc, lasRet,
                   statusLog, headerVars, traceVars>>

HttpNext ==
    \/ \E os \in OptionLists(MaxOpts) : New(os)
    \/ Start
    \/ \E err \in ListenErrors \cup {ErrServerClosed} : ListenFails(err)
    \/ Listen
    \/ \E err \in ServeErrors \cup {ErrServerClosed} : ServeReturns(err)
    \/ \E w \in {"tab", "data"} : StoreFirstWord(w)
    \/ StoreSecondWord
    \/ Status
    \/ Stop

\* package httprest alone: no GetLocalHeader invocation and no tracing setup
HttpInit == Init /\ ~syncing /\ optimisticErr = Nil /\ epbsForkEpoch = 0

HttpSpec == HttpInit /\ [][HttpNext]_vars

(* --------------------------- package tracing --------------------------- *)

\* the arguments of Setup; sampleFraction is in percent
SetupArgs ==
    [ serviceName : {"", "beacon-chain"},
      processName : {"beacon-node"},
      endpoint : {"", "http://127.0.0.1:14268/api/traces"},
      sampleFraction : {20, 100},
      enable : BOOLEAN ]

\* the errors jaeger.NewExporter can return
ExporterErrors == { PlainError("missing endpoint for Jaeger exporter") }

\* the configurations of lines 26 and 34-37
NeverSampleConfig ==
    [DefaultSampler |-> [kind |-> "NeverSample", fraction |-> 0],
     MaxMessageEventsPerSpan |-> 0]
ProbabilityConfig(fraction) ==
    [DefaultSampler |-> [kind |-> "ProbabilitySampler", fraction |-> fraction],
     MaxMessageEventsPerSpan |-> 500]

\* the exporter of lines 40-53
Exporter(args) ==
    [CollectorEndpoint |-> args.endpoint, ServiceName |-> args.serviceName,
     processName |-> args.processName]

\* SetupResult with the sampler configured before the service name is checked
SetupResult_ConfigFirst(args, exporterErr) ==
    IF ~args.enable
    THEN [ret |-> NilError, applied |-> <<NeverSampleConfig>>, registered |-> <<>>]
    ELSE IF args.serviceName = ""
    THEN [ret |-> ErrorValue(PlainError("tracing service name cannot be empty")),
          applied |-> <<ProbabilityConfig(args.sampleFraction)>>, registered |-> <<>>]
    ELSE IF exporterErr # Nil
    THEN [ret |-> ErrorValue(exporterErr[1]),
          applied |-> <<ProbabilityConfig(args.sampleFraction)>>, registered |-> <<>>]
    ELSE [ret |-> NilError,
          applied |-> <<ProbabilityConfig(args.sampleFraction)>>,
          registered |-> <<Exporter(args)>>]

\* lines 24-60: what Setup returns, the configurations it applies and the
\* exporters it registers, when jaeger.NewExporter returns exporterErr
SetupResult(args, exporterErr) ==
    IF ~args.enable
    THEN [ret |-> NilError, applied |-> <<NeverSampleConfig>>, registered |-> <<>>]
    ELSE IF args.serviceName = ""
    THEN [ret |-> ErrorValue(PlainError("tracing service name cannot be empty")),
          applied |-> <<>>, registered |-> <<>>]
    ELSE IF exporterErr # Nil
    THEN [ret |-> ErrorValue(exporterErr[1]),
          applied |-> <<ProbabilityConfig(args.sampleFraction)>>, registered |-> <<>>]
    ELSE [ret |-> NilError,
          applied |-> <<ProbabilityConfig(args.sampleFraction)>>,
          registered |-> <<Exporter(args)>>]

\* Setup(serviceName, processName, endpoint, sampleFraction, enable)
Setup(args, exporterErr) ==
    /\ Len(setupLog) < MaxSetupCalls
    /\ traceConfig' = traceConfig \o SetupResult(args, exporterErr).applied
    /\ exporters' = exporters \o SetupResult(args, exporterErr).registered
    /\ setupLog' = Append(setupLog,
                          [args |-> args, exporterErr |-> exporterErr,
                           ret |-> SetupResult(args, exporterErr).ret,
                           configsBefore |-> Len(traceConfig),
                           exportersBefore |-> Len(exporters)])
    /\ UNCHANGED <<headerVars, httpVars>>

TraceNext ==
    \E args \in SetupArgs, exporterErr \in {Nil} \cup { Some(e) : e \in ExporterErrors } :
        Setup(args, exporterErr)

TraceInit == Init /\ ~syncing /\ optimisticErr = Nil /\ epbsForkEpoch = 0

\* package tracing alone
TraceSpec == TraceInit /\ [][TraceNext]_vars

(* ----------------------------- properties ------------------------------ *)

\* invocation c has returned to its caller
Returned(c) == pc[c] = "done"

\* invocation c has called collaborator fn
Invoked(c, fn) == \E k \in 1..Len(calls[c]) : calls[c][k].fn = fn

\* the call of invocation c to collaborator fn (there is at most one)
CallTo(c, fn) == calls[c][CHOOSE k \in 1..Len(calls[c]) : calls[c][k].fn = fn]

\* Syncing() answered TRUE / FALSE in invocation c
SawSyncing(c) == Len(calls[c]) >= 1 /\ calls[c][1].out[1]
SawNotSyncing(c) == Len(calls[c]) >= 1 /\ ~calls[c][1].out[1]

\* the optimistic check of invocation c failed / succeeded
SawOptimisticError(c) == Len(calls[c]) >= 2 /\ calls[c][2].out # Nil
SawOptimisticOk(c) == Len(calls[c]) >= 2 /\ calls[c][2].out = Nil

\* invocation c returned an error and no header
Failed(c) == Returned(c) /\ ret[c].hdr = Nil /\ ret[c].err # Nil

\* invocation c returned a header and no error
Succeeded(c) == Returned(c) /\ ret[c].hdr # Nil /\ ret[c].err = Nil

\* the error kinds of the specification, told apart by status and message
IsNotReady(err) ==
    /\ err.code = "FailedPrecondition"
    /\ err.msg[1] \in { "Syncing to latest head, not ready to respond",
                        "Validator is not ready to propose: " }
IsForkNotActive(err) ==
    /\ err.code = "FailedPrecondition"
    /\ err.msg = <<"EPBS fork has not occurred yet">>

\* the fork is not active at the slot invocation c asks for
BeforeFork(c) == ToEpoch(req[c].Slot) < epbsForkEpoch

\* C1: an invocation in which Syncing() answered true fails with NotReady, a
\* precondition failure, and calls no collaborator after Syncing(), whatever
\* the slot, the proposer index, the optimistic status and the fork epoch are.
C1_SyncingFailsFirst ==
    \A c \in Calls :
        SawSyncing(c) =>
            /\ Failed(c)
            /\ IsNotReady(ret[c].err[1])
            /\ Len(calls[c]) = 1

\* C1 witness: a syncing node refused a request whose fork is active while the
\* optimistic check would have passed.
C1_Witness ==
    \E c \in Calls :
        /\ Returned(c) /\ SawSyncing(c)
        /\ ~BeforeFork(c) /\ optimisticErr = Nil

\* C2 as stated: every invocation for a slot before the fork epoch fails with
\* ForkNotActive, whatever the sync and optimistic status, and calls neither
\* the resolver nor the producer.
C2_Original ==
    \A c \in Calls :
        (Returned(c) /\ BeforeFork(c)) =>
            /\ Failed(c)
            /\ IsForkNotActive(ret[c].err[1])
            /\ ~Invoked(c, "getParentState")
            /\ ~Invoked(c, "getLocalPayloadFromEngine")

\* C2 amended: every invocation for a slot before the fork epoch fails with a
\* precondition failure and calls neither the resolver nor the producer; the
\* failure is ForkNotActive exactly when Syncing() answered false and the
\* optimistic check succeeded, and NotReady otherwise.
C2_BeforeForkFails ==
    \A c \in Calls :
        (Returned(c) /\ BeforeFork(c)) =>
            /\ Failed(c)
            /\ ret[c].err[1].code = "FailedPrecondition"
            /\ ~Invoked(c, "getParentState")
            /\ ~Invoked(c, "getLocalPayloadFromEngine")
            /\ IsForkNotActive(ret[c].err[1]) <=> (SawNotSyncing(c) /\ SawOptimisticOk(c))
            /\ IsNotReady(ret[c].err[1]) <=> (SawSyncing(c) \/ SawOptimisticError(c))

\* C2 witness: a request before the fork was refused with ForkNotActive, and
\* another one, made while syncing, with NotReady.
C2_Witness ==
    \E c, d \in Calls :
        /\ Returned(c) /\ BeforeFork(c) /\ IsForkNotActive(ret[c].err[1])
        /\ Returned(d) /\ BeforeFork(d) /\ SawSyncing(d) /\ IsNotReady(ret[d].err[1])

\* C3: the checks run in the order syncing, optimistic status, fork, and the
\* caller sees the error of the first one violated: a syncing node answers the
\* syncing error; a node that is not syncing and whose optimistic check fails
\* answers NotReady wrapping the cause, even before the fork; ForkNotActive is
\* answered only when Syncing() was false and the optimistic check succeeded.
C3_GateOrder ==
    \A c \in Calls :
        Returned(c) =>
            /\ SawSyncing(c) =>
                  ret[c].err = Some([plain |-> FALSE, code |-> "FailedPrecondition",
                                     msg |-> <<"Syncing to latest head, not ready to respond">>])
            /\ (SawNotSyncing(c) /\ SawOptimisticError(c)) =>
                  /\ Failed(c)
                  /\ ret[c].err[1].code = "FailedPrecondition"
                  /\ ret[c].err[1].msg =
                        <<"Validator is not ready to propose: ">>
                            \o ErrorText(calls[c][2].out[1])
            /\ (Failed(c) /\ IsForkNotActive(ret[c].err[1])) =>
                  /\ SawNotSyncing(c) /\ SawOptimisticOk(c)
                  /\ Len(calls[c]) = 2

\* C3 witness: an optimistic node that is not syncing refused a request for a
\* slot before the fork with NotReady.
C3_Witness ==
    \E c \in Calls :
        /\ Returned(c) /\ SawNotSyncing(c) /\ SawOptimisticError(c)
        /\ BeforeFork(c) /\ IsNotReady(ret[c].err[1])

\* C4: a returned header has the request's proposer index as its builder
\* index, the value 0 and the requested slot.
C4_HeaderOfRequest ==
    \A c \in Calls :
        (Returned(c) /\ ret[c].hdr # Nil) =>
            /\ ret[c].hdr[1].BuilderIndex = req[c].ProposerIndex
            /\ ret[c].hdr[1].Value = 0
            /\ ret[c].hdr[1].Slot = req[c].Slot

\* C4 witness: a header was returned for a request whose slot and proposer
\* index differ.
C4_Witness ==
    \E c \in Calls :
        Succeeded(c) /\ req[c].Slot # req[c].ProposerIndex /\ req[c].Slot > 0

\* C5: a returned header carries the parent root the resolver returned in this
\* invocation, the commitments root of the payload the producer returned in
\* this invocation, and that payload's parent hash, block hash and gas limit.
C5_HeaderOfPayload ==
    \A c \in Calls :
        (Returned(c) /\ ret[c].hdr # Nil) =>
            LET resolved == CallTo(c, "getParentState").out
                produced == CallTo(c, "getLocalPayloadFromEngine").out.payload[1]
                hdr      == ret[c].hdr[1]
            IN  /\ hdr.ParentBlockRoot = resolved.parentRoot[1]
                /\ Some(hdr.BlobKzgCommitmentsRoot) =
                      KzgCommitmentsRoot(produced.KzgCommitments).root
                /\ hdr.ParentBlockHash = produced.ExecutionData.parentHash
                /\ hdr.BlockHash = produced.ExecutionData.blockHash
                /\ hdr.GasLimit = produced.ExecutionData.gasLimit

\* C5 witness: a header was returned for a payload with two different
\* commitments.
C5_Witness ==
    \E c \in Calls :
        /\ Succeeded(c)
        /\ localPayload[c][1].KzgCommitments = <<1, 2>>
        /\ parentRoot[c] = Some("0xAA")

\* C6: when the producer returns an error the invocation fails with an
\* internal-failure status whose message ends with the producer's error text,
\* returns no header and does not call the commitment-root computer.
C6_ProducerErrorIsInternal ==
    \A c \in Calls :
        (Invoked(c, "getLocalPayloadFromEngine")
            /\ CallTo(c, "getLocalPayloadFromEngine").out.err # Nil) =>
            LET cause == CallTo(c, "getLocalPayloadFromEngine").out.err[1]
                msg   == ret[c].err[1].msg
            IN  /\ Failed(c)
                /\ ret[c].err[1].code = "Internal"
                /\ Len(msg) > Len(ErrorText(cause))
                /\ SubSeq(msg, Len(msg) - Len(ErrorText(cause)) + 1, Len(msg))
                      = ErrorText(cause)
                /\ ~Invoked(c, "KzgCommitmentsRoot")

\* C6 witness: the producer failed in an invocation that had passed the gate
\* and resolved its parent.
C6_Witness ==
    \E c \in Calls :
        /\ Returned(c)
        /\ Invoked(c, "getLocalPayloadFromEngine")
        /\ CallTo(c, "getLocalPayloadFromEngine").out.err # Nil
        /\ parentRoot[c] # Nil

\* C7: when the resolver returns an error the invocation returns exactly that
\* error, with the resolver's classification, returns no header and does not
\* call the producer.
C7_ResolverErrorAsIs ==
    \A c \in Calls :
        (Invoked(c, "getParentState") /\ CallTo(c, "getParentState").out.err # Nil) =>
            /\ Failed(c)
            /\ ret[c].err = CallTo(c, "getParentState").out.err
            /\ ~Invoked(c, "getLocalPayloadFromEngine")

\* C7 witness: two invocations returned resolver errors of different
\* classifications.
C7_Witness ==
    \E c, d \in Calls :
        /\ Returned(c) /\ Invoked(c, "getParentState")
        /\ Returned(d) /\ Invoked(d, "getParentState")
        /\ ret[c].err # Nil /\ ret[c].err[1].code = "NotFound"
        /\ ret[d].err # Nil /\ ret[d].err[1].code = "Internal"
        /\ ret[d].err = CallTo(d, "getParentState").out.err

\* C8: the resolver is called only in an invocation in which Syncing() was
\* false, the optimistic check succeeded and the slot's epoch is at least the
\* fork epoch; and an invocation in which these three hold is not stopped by
\* the gate: once it has returned, it has called the resolver.  This includes
\* the slots of the fork epoch itself.
C8_GatePassesExactly ==
    \A c \in Calls :
        /\ Invoked(c, "getParentState") =>
              (SawNotSyncing(c) /\ SawOptimisticOk(c) /\ ~BeforeFork(c))
        /\ (SawNotSyncing(c) /\ SawOptimisticOk(c) /\ ~BeforeFork(c)) =>
              /\ pc[c] \in {"fork", "resolve", "produce", "done"}
              /\ pc[c] \in {"produce", "done"} => Invoked(c, "getParentState")
              /\ Returned(c) => ~(ret[c].err # Nil /\ IsForkNotActive(ret[c].err[1]))

\* C8 witness: a header was returned for a slot of the fork epoch, which is
\* not the first epoch.
C8_Witness ==
    \E c \in Calls :
        /\ Succeeded(c)
        /\ epbsForkEpoch > 0
        /\ ToEpoch(req[c].Slot) = epbsForkEpoch

\* C9: when the commitment-root computation fails, which it does when the
\* payload carries more commitments than the maximum, the invocation fails
\* with an internal-failure status and returns no header.
C9_RootErrorIsInternal ==
    \A c \in Calls :
        Invoked(c, "KzgCommitmentsRoot") =>
            LET call == CallTo(c, "KzgCommitmentsRoot")
            IN  /\ (call.out.err # Nil) <=>
                      (Len(localPayload[c][1].KzgCommitments) > MaxBlobCommitmentsPerBlock)
                /\ (call.out.err # Nil) =>
                      /\ Failed(c)
                      /\ ret[c].err[1].code = "Internal"

\* C9 witness: the producer returned one commitment more than the maximum.
C9_Witness ==
    \E c \in Calls :
        /\ Returned(c)
        /\ localPayload[c] # Nil
        /\ Len(localPayload[c][1].KzgCommitments) = MaxBlobCommitmentsPerBlock + 1

\* C10: two invocations that return headers for payloads with the same ordered
\* commitments return the same commitments root, whatever their slots,
\* proposer indices, resolved states and parent roots are.
C10_RootOfCommitmentsOnly ==
    \A c, d \in Calls :
        (/\ Returned(c) /\ ret[c].hdr # Nil
         /\ Returned(d) /\ ret[d].hdr # Nil
         /\ localPayload[c][1].KzgCommitments = localPayload[d][1].KzgCommitments) =>
            ret[c].hdr[1].BlobKzgCommitmentsRoot = ret[d].hdr[1].BlobKzgCommitmentsRoot

\* C10 witness: two headers were returned for the same two commitments while
\* slot, proposer index, state, parent root and execution data all differ.
C10_Witness ==
    \E c, d \in Calls :
        /\ Succeeded(c) /\ Succeeded(d)
        /\ localPayload[c][1].KzgCommitments = <<2, 1>>
        /\ localPayload[d][1].KzgCommitments = <<2, 1>>
        /\ req[c].Slot # req[d].Slot
        /\ req[c].ProposerIndex # req[d].ProposerIndex
        /\ st[c] # st[d]
        /\ parentRoot[c] # parentRoot[d]
        /\ localPayload[c][1].ExecutionData # localPayload[d][1].ExecutionData

\* the collaborators in the order of the pipeline
StageOrder ==
    << "Syncing", "optimisticStatus", "getParentState",
       "getLocalPayloadFromEngine", "KzgCommitmentsRoot" >>

\* the collaborator call let the pipeline go on
StageSucceeded(call) ==
    CASE call.fn = "Syncing" -> ~call.out[1]
      [] call.fn = "optimisticStatus" -> call.out = Nil
      [] OTHER -> call.out.err = Nil

\* C11: within one invocation the collaborators are called in the order
\* gate (Syncing, optimisticStatus, fork check), resolver, producer, root
\* computer, each at most once; a collaborator is called only after every
\* earlier stage succeeded, a failed stage is the last one and ends the
\* invocation with an error, and a header is assembled only after all
\* stages succeeded.
C11_LinearPipeline ==
    \A c \in Calls :
        LET n == Len(calls[c])
        IN  /\ n <= Len(StageOrder)
            /\ \A k \in 1..n : calls[c][k].fn = StageOrder[k]
            /\ \A k \in 1..(n - 1) : StageSucceeded(calls[c][k])
            /\ n >= 3 => ~BeforeFork(c)
            /\ (n >= 1 /\ ~StageSucceeded(calls[c][n])) => Failed(c)
            /\ ret[c].hdr # Nil =>
                  (n = Len(StageOrder) /\ StageSucceeded(calls[c][n]) /\ Returned(c))
            /\ pc[c] = "optimistic" => n = 1
            /\ pc[c] \in {"fork", "resolve"} => n = 2
            /\ pc[c] = "produce" => n = 3

\* C11 witness: one invocation went through all stages and returned a header
\* while another one stopped at the producer's error.
C11_Witness ==
    \E c, d \in Calls :
        /\ Succeeded(c) /\ Len(calls[c]) = 5
        /\ Failed(d) /\ Len(calls[d]) = 4
        /\ ~StageSucceeded(calls[d][4])

\* everything invocation c owns
Frame(c) == <<pc[c], req[c], st[c], parentRoot[c], localPayload[c], calls[c], ret[c]>>

\* a step of invocation c leaves the shared status and the other invocations alone
StepIsLocal ==
    \A c \in Calls :
        Frame(c)' # Frame(c) =>
            /\ UNCHANGED <<otherVars, shared>>
            /\ \A d \in Calls \ {c} : Frame(d)' = Frame(d)

\* two invocations with the same request that got the same answers from
\* their collaborators returned the same result
SameInputsSameResult ==
    \A c, d \in Calls :
        (Returned(c) /\ Returned(d) /\ req[c] = req[d] /\ calls[c] = calls[d]) =>
            ret[c] = ret[d]

\* C12: under every interleaving of concurrent invocations, no step of an
\* invocation changes the sync status, the optimistic status or the fork
\* epoch, nor the resolved parent, payload or any other local of another
\* invocation; the result of an invocation is determined by its request and
\* by what its own collaborator calls returned.
C12_NoSharedState == [][StepIsLocal]_vars /\ []SameInputsSameResult

\* C12 witness: two invocations overlap with different resolved parents, one
\* has returned a header, the other is waiting for the producer, and the node
\* has started syncing since both passed the gate.
C12_Witness ==
    \E c, d \in Calls :
        /\ Succeeded(c) /\ pc[d] = "produce"
        /\ parentRoot[c] # parentRoot[d]
        /\ st[c] # st[d]
        /\ syncing

\* invocation c returned a header or an error, not both and not neither
OneResult(c) == (ret[c].hdr # Nil) # (ret[c].err # Nil)

\* C13: every invocation whose collaborator calls return reaches a terminal
\* state, and in a terminal state it has returned either a header and no
\* error or an error and no header.
C13_Terminates ==
    /\ \A c \in Calls : (pc[c] # "idle") ~> Returned(c)
    /\ [](\A c \in Calls : Returned(c) => OneResult(c))
    /\ [](\A c \in Calls : ~Returned(c) => ret[c] = NoReturn)

\* C13 witness: an invocation ended with a header although the node started
\* syncing while it ran.
C13_Witness ==
    \E c \in Calls :
        /\ Returned(c) /\ ret[c].hdr # Nil /\ ret[c].err = Nil
        /\ syncing

\* what a call of Status returned is the nil error
Healthy(r) == r = NilError

\* C14 as stated: Status returns a non-nil error only if ListenAndServe has
\* returned an error other than http.ErrServerClosed, and then it returns that
\* same error on every later call; a server whose ListenAndServe returned
\* http.ErrServerClosed is never reported unhealthy.
C14_Original ==
    /\ \A k \in 1..Len(statusLog) :
          ~Healthy(statusLog[k]) =>
              /\ lasRet # Nil
              /\ lasRet[1] # ErrServerClosed
              /\ statusLog[k] = ErrorValue(lasRet[1])
    /\ \A k, l \in 1..Len(statusLog) :
          (k < l /\ ~Healthy(statusLog[k])) => statusLog[l] = statusLog[k]
    /\ lasRet = Some(ErrServerClosed) =>
          \A k \in 1..Len(statusLog) : Healthy(statusLog[k])

\* an option of the list returns an error
AnyOptionFails(os) == \E k \in 1..Len(os) : os[k].err # Nil

\* the router the last WithRouter option of the list sets, Nil without one
ConfiguredRouter(os) ==
    LET ks == { k \in 1..Len(os) : os[k].kind = "router" }
    IN  IF ks = {} THEN Nil
        ELSE os[CHOOSE k \in ks : \A j \in ks : j <= k].router

\* C15: New returns an error and no Server when an option returns an error or
\* no router is configured after all options, and otherwise a Server whose
\* handler is the configured router and no error; Stop on a Server that was
\* never started returns nil and calls no cancel function.
C15_NewAndStop ==
    /\ newRet # Nil =>
          IF AnyOptionFails(opts) \/ ConfiguredRouter(opts) = Nil
          THEN newRet[1].srv = Nil /\ newRet[1].err # Nil /\ server = Nil
          ELSE /\ newRet[1].srv # Nil /\ newRet[1].err = Nil
               /\ server # Nil
               /\ server[1].Handler = ConfiguredRouter(opts)
    /\ gpc = "none" =>
          /\ cancelCalls = 0
          /\ \A k \in 1..Len(stopLog) : stopLog[k] = NilError

\* C15 witness: New got two routers and kept the second, and the Server was
\* stopped without ever being started.
C15_Witness ==
    /\ Constructed
    /\ Len(opts) = 2
    /\ opts[1].router = Some("routerA")
    /\ server[1].Handler = Some("routerB")
    /\ gpc = "none"
    /\ Len(stopLog) >= 1

\* the call of Setup with this log entry created its exporter
ExporterCreated(e) ==
    e.args.enable /\ e.args.serviceName # "" /\ e.exporterErr = Nil

\* C16: Setup with enable=false returns nil whatever the service name is,
\* applies the never-sample configuration and registers no exporter; with
\* enable=true and an empty service name it returns an error and has applied
\* no configuration and registered no exporter; it registers an exporter only
\* when enable=true, the service name is not empty and the exporter was created.
C16_SetupGuards ==
    /\ \A k \in 1..Len(setupLog) :
          LET e == setupLog[k]
              configsAfter == IF k < Len(setupLog) THEN setupLog[k + 1].configsBefore
                              ELSE Len(traceConfig)
              exportersAfter == IF k < Len(setupLog) THEN setupLog[k + 1].exportersBefore
                                ELSE Len(exporters)
          IN  /\ ~e.args.enable =>
                    /\ e.ret = NilError
                    /\ exportersAfter = e.exportersBefore
                    /\ configsAfter = e.configsBefore + 1
                    /\ traceConfig[configsAfter].DefaultSampler.kind = "NeverSample"
              /\ (e.args.enable /\ e.args.serviceName = "") =>
                    /\ e.ret # NilError
                    /\ configsAfter = e.configsBefore
                    /\ exportersAfter = e.exportersBefore
              /\ exportersAfter # e.exportersBefore =>
                    /\ ExporterCreated(e)
                    /\ exportersAfter = e.exportersBefore + 1
                    /\ exporters[exportersAfter].ServiceName = e.args.serviceName

\* C16 witness: Setup was called with tracing disabled and an empty service
\* name, and with tracing enabled and an empty service name.
C16_Witness ==
    \E k, l \in 1..Len(setupLog) :
        /\ ~setupLog[k].args.enable /\ setupLog[k].args.serviceName = ""
        /\ setupLog[l].args.enable /\ setupLog[l].args.serviceName = ""
        /\ Len(exporters) = 0

====
